---- MODULE Spec2Model ----
(***************************************************************************)
(* A model of undercomplicate: the LRU cache (esm/lru_cache.js), the       *)
(* adapter's cached retrieval (esm/adapter.js, BaseAdapter.getData) and    *)
(* the dependency scheduler (esm/requests.js, getLinkedData).              *)
(***************************************************************************)
EXTENDS Integers, Sequences, FiniteSets, TLC

\* ------------------------------------------------------------------ bounds
\* Largest cache capacity tried (the constructor's max_size).
MaxCap == 2
\* Cache keys are 1..MaxKey.
MaxKey == 3

\* JavaScript's null: an absent node reference, and the null value.
null == 0
\* The default of add's metadata parameter, {}.
DefaultMeta == 0

Keys == 1..MaxKey
\* The values cached by the cache-only specification: null and one other.
Values == {0, 1}
\* The metadata stored with an entry: the default and one other.
Metas == {0, 1}

\* Node names are 1..MaxNode, and at most MaxNode declarations are given.
MaxNode == 3

\* Most getData calls made on one adapter.
MaxRequests == 3
\* The adapter's cache keys (the request's somevalue, or URL) are 1..MaxUrl.
MaxUrl == 2
\* Most declarations given where the options objects are followed.
MaxOptionNodes == 2
\* Longest declaration string given to _parse_declaration.
MaxText == 5

Urls == 1..MaxUrl

VARIABLES
    cache,          \* the LRUCache object: _max_size, _cur_size, _store, _head, _tail, and the heap of LLNodes
    last,           \* the last cache operation, its arguments and what it returned
    enable_cache,   \* the adapter's _enable_cache
    payload,        \* what the adapter's _performRequest resolves to: "text" or "object"
    promises,       \* the promises _performRequest has returned, in order
    requests,       \* the getData calls made, in order
    microtasks,     \* the promise reactions queued to run, first in first out
    dependencies,   \* getLinkedData's argument: the declarations, in order
    entities,       \* getLinkedData's argument: the names that have a provider
    consolidate,    \* getLinkedData's argument
    phase,          \* "init" before the call of getLinkedData, "called" after it
    thrown,         \* the Error the call threw, if any
    order,          \* toposort.nodes
    tasks,          \* the promises in `responses`, by node name
    returned,       \* what the call returned
    dirty,          \* whether promise reactions are waiting to run
    shared_options, \* getLinkedData's argument: the fields of the object as passed
    objects,        \* the options objects: the fields of shared_options and of each object made from it, by identity
    declaration,    \* the string given to _parse_declaration, as a sequence of characters
    parse           \* what _parse_declaration did with it: returned [name, deps], or threw

lruVars == <<cache, last>>
adapterVars == <<enable_cache, payload, promises, requests, microtasks>>
linkedVars == <<dependencies, entities, consolidate, phase, thrown, order, tasks, returned, dirty,
               shared_options, objects>>
parseVars == <<declaration, parse>>
vars == <<lruVars, adapterVars, linkedVars, parseVars>>

\* ------------------------------------------------------------ the LRU cache

\* new LLNode(key, value, metadata, prev, next)
LLNode(key, value, metadata, prev, next) ==
    [key |-> key, value |-> value, metadata |-> metadata, prev |-> prev, next |-> next]

\* A constructor without the validation of max_size.
LRUCacheNewUnchecked(max_size) ==
    [max_size |-> max_size, cur_size |-> 0, store |-> <<>>,
     head |-> null, tail |-> null, nodes |-> <<>>,
     thrown |-> FALSE]

\* new LRUCache(max_size): the fields after construction; thrown is the
\* constructor's Error('Cache "max_size" must be >= 0').
LRUCacheNew(max_size) ==
    [max_size |-> max_size, cur_size |-> 0, store |-> <<>>,
     head |-> null, tail |-> null, nodes |-> <<>>,
     thrown |-> (max_size < 0)]

\* The _store Map, kept in insertion order as a sequence of <<key, node>>.
StoreHas(store, key) == \E i \in 1..Len(store) : store[i][1] = key

StoreGet(store, key) ==
    IF StoreHas(store, key)
    THEN store[CHOOSE i \in 1..Len(store) : store[i][1] = key][2]
    ELSE null

StoreDelete(store, key) == SelectSeq(store, LAMBDA e : e[1] # key)

\* Map.set: an existing key keeps its place, a new key goes last.
StoreSet(store, key, node) ==
    IF StoreHas(store, key)
    THEN [i \in 1..Len(store) |-> IF store[i][1] = key THEN <<key, node>> ELSE store[i]]
    ELSE Append(store, <<key, node>>)

StoreKeys(store) == [i \in 1..Len(store) |-> store[i][1]]

\* has(key)
Has(c, key) == StoreHas(c.store, key)

\* The reference of the object `new LLNode` makes: one no live object has.
NewNode(c) ==
    CHOOSE n \in 1..(Cardinality(DOMAIN c.nodes) + 1) :
        /\ n \notin DOMAIN c.nodes
        /\ \A m \in 1..(n - 1) : m \in DOMAIN c.nodes

\* _remove without the `this._cur_size -= 1` of its last line.
RemoveKeepsCount(c, node) ==
    LET nd == c.nodes[node]
        c1 == IF nd.prev # null
              THEN [c EXCEPT !.nodes[nd.prev].next = nd.next]
              ELSE [c EXCEPT !.head = nd.next]
        c2 == IF nd.next # null
              THEN [c1 EXCEPT !.nodes[nd.next].prev = nd.prev]
              ELSE [c1 EXCEPT !.tail = nd.prev]
    IN  [c2 EXCEPT !.store = StoreDelete(@, nd.key)]

\* _remove(node)
Remove(c, node) ==
    LET nd == c.nodes[node]
        c1 == IF nd.prev # null
              THEN [c EXCEPT !.nodes[nd.prev].next = nd.next]
              ELSE [c EXCEPT !.head = nd.next]
        c2 == IF nd.next # null
              THEN [c1 EXCEPT !.nodes[nd.next].prev = nd.prev]
              ELSE [c1 EXCEPT !.tail = nd.prev]
    IN  [c2 EXCEPT !.store = StoreDelete(@, nd.key), !.cur_size = @ - 1]

\* add without the removal of the key's prior node.
AddWithoutUnlink(c, key) == c

\* add, lines 54-57: the key's prior node, if any, is unlinked first.
AddUnlink(c, key) ==
    LET prior == StoreGet(c.store, key)
    IN  IF prior # null THEN Remove(c, prior) ELSE c

\* add, lines 59-68: the new node `node` is linked in before the head and
\* becomes the head, and the map's entry of the key.
AddLink(c, node, key, value, metadata) ==
    LET c2 == [c EXCEPT !.nodes = (node :> LLNode(key, value, metadata, null, c.head)) @@ @]
        c3 == IF c.head # null
              THEN [c2 EXCEPT !.nodes[c.head].prev = node]
              ELSE [c2 EXCEPT !.tail = node]
    IN  [c3 EXCEPT !.head = node, !.store = StoreSet(@, key, node)]

\* The eviction with the test `_cur_size > _max_size`: one entry too late.
AddEvictLate(c) ==
    IF c.max_size >= 0 /\ c.cur_size > c.max_size
    THEN Remove([c EXCEPT !.tail = c.nodes[c.tail].prev], c.tail)
    ELSE c

\* add, lines 70-74: a full cache loses its tail.
AddEvict(c) ==
    IF c.max_size >= 0 /\ c.cur_size >= c.max_size
    THEN Remove([c EXCEPT !.tail = c.nodes[c.tail].prev], c.tail)
    ELSE c

\* add that takes a max_size of 0 for "no limit": no early return, and no
\* eviction when max_size is falsy.
AddZeroUnbounded(c, key, value, metadata) ==
    IF c.max_size = 0
    THEN [AddLink(AddUnlink(c, key), NewNode(AddUnlink(c, key)), key, value, metadata)
            EXCEPT !.cur_size = @ + 1]
    ELSE [AddEvict(AddLink(AddUnlink(c, key), NewNode(AddUnlink(c, key)), key, value, metadata))
            EXCEPT !.cur_size = @ + 1]

\* add(key, value, metadata)
Add(c, key, value, metadata) ==
    IF c.max_size = 0 THEN c
    ELSE [AddEvict(AddLink(AddUnlink(c, key), NewNode(AddUnlink(c, key)), key, value, metadata))
            EXCEPT !.cur_size = @ + 1]

\* get without the re-insertion that makes the entry the head.
GetWithoutPromotion(c, key) ==
    LET cached == StoreGet(c.store, key)
    IN  IF cached = null
        THEN [cache |-> c, ret |-> null]
        ELSE [cache |-> c, ret |-> c.nodes[cached].value]

\* get(key): the cache afterwards and the value returned.
Get(c, key) ==
    LET cached == StoreGet(c.store, key)
    IN  IF cached = null
        THEN [cache |-> c, ret |-> null]
        ELSE [cache |-> IF c.head # cached
                        THEN Add(c, key, c.nodes[cached].value, DefaultMeta)
                        ELSE c,
              ret |-> c.nodes[cached].value]

\* clear()
Clear(c) == [c EXCEPT !.head = null, !.tail = null, !.cur_size = 0, !.store = <<>>]

\* find(callback), for a callback that returns true on the keys of `match` and,
\* before returning, calls _remove on the node it is given when its key is in
\* `drop`. The loop from `node` on: the cache afterwards, the node returned
\* (null for undefined) and the keys visited, in order.
RECURSIVE FindFrom(_, _, _, _, _)
FindFrom(c, node, match, drop, seen) ==
    IF node = null
    THEN [cache |-> c, ret |-> null, visited |-> seen]
    ELSE LET nd == c.nodes[node]
             next == nd.next
             c1 == IF nd.key \in drop THEN Remove(c, node) ELSE c
         IN  IF nd.key \in match
             THEN [cache |-> c1, ret |-> node, visited |-> Append(seen, nd.key)]
             ELSE FindFrom(c1, next, match, drop, Append(seen, nd.key))

\* find whose scan ends at an entry the callback removed, as it would if the
\* removal cut the node off the chain before the loop read its successor.
FindStopsAtRemoved(c, match, drop) ==
    LET r == FindFrom(c, c.head, match \cup drop, drop, <<>>)
    IN  IF r.ret # null /\ c.nodes[r.ret].key \notin match
        THEN [r EXCEPT !.ret = null]
        ELSE r

Find(c, match, drop) == FindFrom(c, c.head, match, drop, <<>>)

\* The nodes some live reference leads to: from _head, _tail and the _store,
\* along prev and next. The others are garbage.
RECURSIVE Closure(_, _)
Closure(c, S) ==
    LET T == S \cup { c.nodes[n].prev : n \in S } \cup { c.nodes[n].next : n \in S }
        U == { n \in T : n \in DOMAIN c.nodes }
    IN  IF U = S THEN S ELSE Closure(c, U)

Live(c) ==
    Closure(c, { n \in {c.head, c.tail} \cup { c.store[i][2] : i \in 1..Len(c.store) } :
                 n \in DOMAIN c.nodes })

\* The references along next from `node`, each once: most recent first.
RECURSIVE WalkNodes(_, _, _)
WalkNodes(c, node, seen) ==
    IF node = null \/ node \notin DOMAIN c.nodes \/ node \in seen THEN <<>>
    ELSE <<node>> \o WalkNodes(c, c.nodes[node].next, seen \cup {node})

\* The elements of a set of numbers, ascending.
RECURSIVE Ascending(_)
Ascending(S) ==
    IF S = {} THEN <<>>
    ELSE LET m == CHOOSE x \in S : \A y \in S : x <= y
         IN  <<m>> \o Ascending(S \ {m})

\* The live nodes in the order of the chain; nodes off the chain, if any,
\* follow.
LiveOrder(c, onChain) == onChain \o Ascending(Live(c) \ { onChain[i] : i \in 1..Len(onChain) })

\* The cache with node names[i] renamed i, and the other nodes dropped.
Rename(c, names) ==
    LET name(n) == IF n = null THEN null ELSE CHOOSE i \in 1..Len(names) : names[i] = n
    IN  [c EXCEPT
            !.head = name(@),
            !.tail = name(@),
            !.store = [i \in 1..Len(@) |-> <<@[i][1], name(@[i][2])>>],
            !.nodes = [i \in 1..Len(names) |->
                        [c.nodes[names[i]] EXCEPT !.prev = name(@), !.next = name(@)]]]

\* Garbage collection: unreachable nodes go. A reference is an identity and
\* nothing reads its value, so the live nodes are renamed 1, 2, ... in the
\* order of the chain.
Collect(c) == Rename(c, LiveOrder(c, WalkNodes(c, c.head, {})))

\* The keys along the chain from `node` following next: most recent first.
\* `fuel` bounds the walk, so that a chain that loops still ends.
RECURSIVE Walk(_, _, _)
Walk(c, node, fuel) ==
    IF node = null \/ node \notin DOMAIN c.nodes \/ fuel = 0 THEN <<>>
    ELSE <<c.nodes[node].key>> \o Walk(c, c.nodes[node].next, fuel - 1)

Chain(c) == Walk(c, c.head, Cardinality(DOMAIN c.nodes) + 1)

\* The keys along the chain from the tail following prev: least recent first.
RECURSIVE WalkBack(_, _, _)
WalkBack(c, node, fuel) ==
    IF node = null \/ node \notin DOMAIN c.nodes \/ fuel = 0 THEN <<>>
    ELSE <<c.nodes[node].key>> \o WalkBack(c, c.nodes[node].prev, fuel - 1)

ChainBack(c) == WalkBack(c, c.tail, Cardinality(DOMAIN c.nodes) + 1)

\* ------------------------------------------- the cache-only specification

\* The record of an operation: its name and arguments, what it returned, and
\* the keys of the chain (most recent first) when it was called.
NoOp ==
    [op |-> "new", key |-> 0, value |-> 0, metadata |-> 0, ret |-> 0, before |-> <<>>,
     match |-> {}, drop |-> {}, visited |-> <<>>]

Called(op) == [NoOp EXCEPT !.op = op, !.before = Chain(cache)]

\* _parse_declaration is not called.
NotParsed == [state |-> "none", name |-> <<>>, deps |-> <<>>, message |-> <<>>]
ParseIdle ==
    /\ declaration = <<>>
    /\ parse = NotParsed

\* No adapter call is made.
AdapterIdle ==
    /\ enable_cache = TRUE
    /\ payload = "text"
    /\ promises = <<>>
    /\ requests = <<>>
    /\ microtasks = <<>>

\* JavaScript's undefined: the value of a field an object does not have.
undefined == 0
\* The top-level fields of options followed: the requesting node's name and
\* one other.
Fields == {"_provider_name", "extra"}
EmptyObject == [f \in Fields |-> undefined]
\* The identity of the shared_options object.
SharedRef == 0

NoError == [kind |-> "none", name |-> 0]
NothingReturned == [state |-> "none", value |-> <<>>, error |-> 0]

\* No call of getLinkedData is made.
LinkedIdle ==
    /\ dependencies = <<>>
    /\ entities = {}
    /\ consolidate = TRUE
    /\ phase = "idle"
    /\ thrown = NoError
    /\ order = <<>>
    /\ tasks = <<>>
    /\ returned = NothingReturned
    /\ dirty = FALSE
    /\ shared_options = EmptyObject
    /\ objects = <<>>

LRUInit ==
    /\ \E m \in (-MaxCap)..MaxCap : cache = LRUCacheNew(m)
    /\ last = NoOp
    /\ AdapterIdle
    /\ LinkedIdle
    /\ ParseIdle

DoHas ==
    /\ ~cache.thrown
    /\ UNCHANGED <<adapterVars, linkedVars, parseVars>>
    /\ \E k \in Keys :
        /\ last' = [Called("has") EXCEPT !.key = k, !.ret = IF Has(cache, k) THEN 1 ELSE 0]
        /\ UNCHANGED cache

DoGet ==
    /\ ~cache.thrown
    /\ UNCHANGED <<adapterVars, linkedVars, parseVars>>
    /\ \E k \in Keys :
        LET r == Get(cache, k)
        IN  /\ cache' = Collect(r.cache)
            /\ last' = [Called("get") EXCEPT !.key = k, !.ret = r.ret]

DoAdd ==
    /\ ~cache.thrown
    /\ UNCHANGED <<adapterVars, linkedVars, parseVars>>
    /\ \E k \in Keys, v \in Values, m \in Metas :
        /\ cache' = Collect(Add(cache, k, v, m))
        /\ last' = [Called("add") EXCEPT !.key = k, !.value = v, !.metadata = m]

DoRemove ==
    /\ ~cache.thrown
    /\ UNCHANGED <<adapterVars, linkedVars, parseVars>>
    /\ \E k \in Keys :
        /\ Has(cache, k)
        /\ cache' = Collect(Remove(cache, StoreGet(cache.store, k)))
        /\ last' = [Called("_remove") EXCEPT !.key = k]

DoClear ==
    /\ ~cache.thrown
    /\ UNCHANGED <<adapterVars, linkedVars, parseVars>>
    /\ cache' = Collect(Clear(cache))
    /\ last' = Called("clear")

\* The callbacks tried by find, told apart by what they do on the entries they
\* are given: those true on at most two cached keys, which remove the visited
\* node for at most one key, one of those the scan from the head comes to
\* before the callback is true.
Cached == { cache.nodes[n].key : n \in DOMAIN cache.nodes }
FindMatches == { S \in SUBSET Cached : Cardinality(S) <= 2 }
FindDrops == { S \in SUBSET Cached : Cardinality(S) <= 1 }
Reached(visited, drop) == \A k \in drop : \E i \in DOMAIN visited : visited[i] = k

DoFind ==
    /\ ~cache.thrown
    /\ UNCHANGED <<adapterVars, linkedVars, parseVars>>
    /\ \E match \in FindMatches, drop \in FindDrops :
        /\ Reached(Find(cache, match, {}).visited, drop)
        /\ LET r == Find(cache, match, drop)
           IN  /\ cache' = Collect(r.cache)
               /\ last' = [Called("find") EXCEPT
                                    !.ret = IF r.ret = null THEN 0 ELSE cache.nodes[r.ret].key,
                                    !.match = match, !.drop = drop, !.visited = r.visited]

LRUNext == DoHas \/ DoGet \/ DoAdd \/ DoRemove \/ DoClear \/ DoFind

LRUSpec == LRUInit /\ [][LRUNext]_vars

\* ------------------------------------------------- the adapter's getData

\* _performRequest(options): one more promise, pending. `a` is the field of
\* the value it is fulfilled with that _annotateRecords changes.
PerformRequest(ps, key) == Append(ps, [state |-> "pending", key |-> key, a |-> 0])

\* getData that never looks into the cache.
GetDataAlwaysFetches(c, enabled, ps, cache_key, cache_meta) ==
    LET ps1 == PerformRequest(ps, cache_key)
        result == Len(ps1)
    IN  [cache |-> Add(c, cache_key, result, cache_meta), promises |-> ps1,
         result |-> result, fetched |-> TRUE]

\* getData that starts the fetch of a missing key and leaves the cache as it
\* is, as it would if the future were stored once the fetch has settled.
GetDataStoresLater(c, enabled, ps, cache_key, cache_meta) ==
    IF enabled /\ Has(c, cache_key)
    THEN LET g == Get(c, cache_key)
         IN  [cache |-> g.cache, promises |-> ps, result |-> g.ret, fetched |-> FALSE]
    ELSE LET ps1 == PerformRequest(ps, cache_key)
         IN  [cache |-> c, promises |-> ps1, result |-> Len(ps1), fetched |-> TRUE]

\* getData that leaves the cache alone altogether when caching is disabled.
GetDataDisabledSkipsCache(c, enabled, ps, cache_key, cache_meta) ==
    IF enabled /\ Has(c, cache_key)
    THEN LET g == Get(c, cache_key)
         IN  [cache |-> g.cache, promises |-> ps, result |-> g.ret, fetched |-> FALSE]
    ELSE LET ps1 == PerformRequest(ps, cache_key)
         IN  [cache |-> IF enabled THEN Add(c, cache_key, Len(ps1), cache_meta) ELSE c,
              promises |-> ps1, result |-> Len(ps1), fetched |-> TRUE]

\* getData up to `return result.then(...)`: the cache and the promises
\* afterwards, the promise `result`, and whether _performRequest was called.
\* cache_key is _getCacheKey(options), cache_meta is options._cache_meta.
GetDataSync(c, enabled, ps, cache_key, cache_meta) ==
    IF enabled /\ Has(c, cache_key)
    THEN LET g == Get(c, cache_key)
         IN  [cache |-> g.cache, promises |-> ps, result |-> g.ret, fetched |-> FALSE]
    ELSE LET ps1 == PerformRequest(ps, cache_key)
             result == Len(ps1)
         IN  [cache |-> Add(c, cache_key, result, cache_meta), promises |-> ps1,
              result |-> result, fetched |-> TRUE]

\* The reactions a settled promise queues: the first `then` of every getData
\* call waiting on it, in the order of the calls.
Reactions(reqs, p) ==
    LET waiting == SelectSeq([r \in 1..Len(reqs) |-> r], LAMBDA r : reqs[r].promise = p)
    IN  [i \in 1..Len(waiting) |-> <<waiting[i], "normalize">>]

AdapterInit ==
    /\ \E m \in 0..MaxCap : cache = LRUCacheNew(m)
    /\ last = NoOp
    /\ enable_cache \in BOOLEAN
    /\ payload \in {"text", "object"}
    /\ promises = <<>>
    /\ requests = <<>>
    /\ microtasks = <<>>
    /\ LinkedIdle
    /\ ParseIdle

\* What a call of getData with the key leaves, g being what GetDataSync
\* returns. The fields cachedAtCall, pendingAtCall and stateAtCall record what
\* the call found: the promise cached under the key, the pending promises of
\* earlier fetches of the key, and the state of the promise the call got.
GetDataReturns(key, cached, g) ==
    /\ cache' = Collect(g.cache)
    /\ promises' = g.promises
    /\ requests' = Append(requests,
            [key |-> key, promise |-> g.result, fetched |-> g.fetched,
             cachedAtCall |-> IF cached = null THEN null ELSE cache.nodes[cached].value,
             pendingAtCall |-> { p \in 1..Len(promises) :
                                  promises[p].key = key /\ promises[p].state = "pending" },
             stateAtCall |-> IF g.fetched THEN "new" ELSE promises[g.result].state,
             stage |-> "waiting", own |-> FALSE, a |-> 0, result |-> 0])
    /\ microtasks' = IF g.promises[g.result].state # "pending"
                     THEN Append(microtasks, <<Len(requests) + 1, "normalize">>)
                     ELSE microtasks

\* A call of getData({somevalue: key}); the adapter's _getCacheKey returns
\* options.somevalue and sets no options._cache_meta, so that add gets
\* undefined and stores the default metadata.
GetData ==
    /\ Len(requests) < MaxRequests
    /\ \E key \in Urls :
        GetDataReturns(key, StoreGet(cache.store, key),
                       GetDataSync(cache, enable_cache, promises, key, DefaultMeta))
    /\ UNCHANGED <<last, enable_cache, payload, linkedVars, parseVars>>

\* The fetch of a pending promise succeeds: the promise is fulfilled with the
\* response, [{a: 1}] or its text.
Fulfil ==
    /\ microtasks = <<>>
    /\ \E p \in 1..Len(promises) :
        /\ promises[p].state = "pending"
        /\ promises' = [promises EXCEPT ![p].state = "fulfilled", ![p].a = 1]
        /\ microtasks' = Reactions(requests, p)
    /\ UNCHANGED <<cache, last, enable_cache, payload, requests, linkedVars, parseVars>>

\* The fetch of a pending promise fails: the promise is rejected.
Reject ==
    /\ microtasks = <<>>
    /\ \E p \in 1..Len(promises) :
        /\ promises[p].state = "pending"
        /\ promises' = [promises EXCEPT ![p].state = "rejected"]
        /\ microtasks' = Reactions(requests, p)
    /\ UNCHANGED <<cache, last, enable_cache, payload, requests, linkedVars, parseVars>>

\* The first queued reaction runs: one `then` of getData's chain, for the call
\* r. A rejection skips the handlers and rejects the call's promise at the end.
RunThen ==
    /\ microtasks # <<>>
    /\ LET r == Head(microtasks)[1]
           step == Head(microtasks)[2]
           req == requests[r]
           p == req.promise
           rest == Tail(microtasks)
       IN  IF promises[p].state = "rejected"
           THEN /\ requests' = [requests EXCEPT ![r].stage =
                                    IF step = "finish" THEN "failed" ELSE @]
                /\ microtasks' = CASE step = "normalize" -> Append(rest, <<r, "annotate">>)
                                    [] step = "annotate" -> Append(rest, <<r, "finish">>)
                                    [] OTHER -> rest
                /\ UNCHANGED promises
           ELSE CASE step = "normalize" ->
                    \* _normalizeResponse: JSON.parse of a text makes a new
                    \* object, an object is returned as it is
                    /\ requests' = [requests EXCEPT
                                        ![r].stage = "normalized",
                                        ![r].own = (payload = "text"),
                                        ![r].a = IF payload = "text" THEN promises[p].a ELSE @]
                    /\ microtasks' = Append(rest, <<r, "annotate">>)
                    /\ UNCHANGED promises
                [] step = "annotate" ->
                    \* _annotateRecords: row.a += 1, in place
                    /\ requests' = [requests EXCEPT
                                        ![r].stage = "annotated",
                                        ![r].a = IF req.own THEN @ + 1 ELSE @]
                    /\ promises' = IF req.own THEN promises
                                   ELSE [promises EXCEPT ![p].a = @ + 1]
                    /\ microtasks' = Append(rest, <<r, "finish">>)
                [] OTHER ->
                    \* _postProcessResponse: the records, as the caller sees
                    \* them when the call's promise is fulfilled
                    /\ requests' = [requests EXCEPT
                                        ![r].stage = "done",
                                        ![r].result = IF req.own THEN req.a ELSE promises[p].a]
                    /\ microtasks' = rest
                    /\ UNCHANGED promises
    /\ UNCHANGED <<cache, last, enable_cache, payload, linkedVars, parseVars>>

AdapterNext == GetData \/ Fulfil \/ Reject \/ RunThen

AdapterSpec == AdapterInit /\ [][AdapterNext]_vars

\* --------------------------------------------------------- getLinkedData

Names == 1..MaxNode

\* The prerequisite lists tried: up to two distinct names, in either order.
DepLists ==
    {<<>>} \cup { <<a>> : a \in Names }
           \cup { <<p[1], p[2]>> : p \in { q \in Names \X Names : q[1] # q[2] } }

\* The well-formed declarations `name` and `name(dep, ...)`, each written as
\* the name and the list of prerequisites it spells.
Declarations == [name : Names, deps : DepLists]

\* _parse_declaration(spec), of a well-formed declaration: [name, deps].
ParseDeclaration(spec) == <<spec.name, spec.deps>>

\* Line 29: dependencies.map((spec) => _parse_declaration(spec))
Parsed == [i \in 1..Len(dependencies) |-> ParseDeclaration(dependencies[i])]

\* new Map(parsed): keys() in the order of each name's first declaration,
\* get(name) the prerequisites of its last one.
DagKeys(parsed) ==
    LET firsts == SelectSeq([i \in 1..Len(parsed) |-> i],
                            LAMBDA i : \A j \in 1..(i - 1) : parsed[j][1] # parsed[i][1])
    IN  [k \in 1..Len(firsts) |-> parsed[firsts[k]][1]]

DagGet(parsed, name) ==
    LET i == CHOOSE i \in 1..Len(parsed) :
                /\ parsed[i][1] = name
                /\ \A j \in (i + 1)..Len(parsed) : parsed[j][1] # name
    IN  parsed[i][2]

\* The Sorter's items for dag.entries() that drop the `after` option.
SorterItemsWithoutAfter(parsed, keys) ==
    [k \in 1..Len(keys) |-> [node |-> keys[k], after |-> <<>>]]

\* The Sorter's items after toposort.add(name, {after: deps, group: name}) for
\* every entry of the dag.
SorterItems(parsed, keys) ==
    [k \in 1..Len(keys) |-> [node |-> keys[k], after |-> DagGet(parsed, keys[k])]]

\* The Sorter's order of its items. An item is ready when every item it must
\* come after has been placed (a name that no item has constrains nothing);
\* among the ready items the one added first is placed next. The result is
\* shorter than the items when a cycle leaves none ready.
SorterReady(items, placed, i) ==
    /\ i \notin placed
    /\ \A j \in 1..Len(items) :
        (\E d \in 1..Len(items[i].after) : items[i].after[d] = items[j].node) => j \in placed

RECURSIVE SorterSort(_, _, _)
SorterSort(items, placed, sorted) ==
    IF \E i \in 1..Len(items) : SorterReady(items, placed, i)
    THEN LET i == CHOOSE i \in 1..Len(items) :
                    /\ SorterReady(items, placed, i)
                    /\ \A j \in 1..(i - 1) : ~SorterReady(items, placed, j)
         IN  SorterSort(items, placed \cup {i}, Append(sorted, items[i].node))
    ELSE sorted

\* Whether Sorter.add of items[k], after the adds before it, throws: an item
\* that comes after itself, or no order of the items added so far.
SorterAddThrows(items, k) ==
    \/ \E d \in 1..Len(items[k].after) : items[k].after[d] = items[k].node
    \/ Len(SorterSort(SubSeq(items, 1, k), {}, <<>>)) < k

\* The adds with a catch that swallows the Sorter's error.
TopoErrorSwallowed(items) == NoError

\* Lines 33-41: the adds in the order of the dag's entries; the first that
\* throws is rethrown as the circular-dependency Error naming its node.
TopoError(items) ==
    IF \E k \in 1..Len(items) : SorterAddThrows(items, k)
    THEN LET k == CHOOSE k \in 1..Len(items) :
                    /\ SorterAddThrows(items, k)
                    /\ \A j \in 1..(k - 1) : ~SorterAddThrows(items, j)
         IN  [kind |-> "circular", name |-> items[k].node]
    ELSE NoError

\* Object.assign(target, source): the fields of source written over target's.
ObjectAssign(target, source) ==
    [f \in Fields |-> IF source[f] # undefined THEN source[f] ELSE target[f]]

\* Object.assign(shared_options, ...) in place of a new object: the options
\* are the shared object itself.
OptionsObjectShared(name) == SharedRef

\* Line 60: the object Object.assign returns is its first argument, the new
\* object of the literal {_provider_name: name}; the node's name stands for
\* its identity.
OptionsObject(name) == name

\* Line 60: the fields of Object.assign({_provider_name: name}, shared_options),
\* shared the fields of shared_options at that time.
OptionsFields(name, shared) ==
    ObjectAssign([EmptyObject EXCEPT !["_provider_name"] = name], shared)

\* A task that also waits for the task scheduled just before it, as a loop
\* that awaits each request in turn would.
ScheduleInSequence(parsed, ord, i) ==
    LET depends_on == DagGet(parsed, ord[i])
    IN  [state |-> "scheduled",
         prereqs |-> [d \in 1..Len(depends_on) |->
                        IF \E j \in 1..(i - 1) : ord[j] = depends_on[d]
                        THEN depends_on[d] ELSE 0]
                     \o (IF i > 1 THEN <<ord[i - 1]>> ELSE <<>>),
         invoked |-> FALSE, args |-> <<>>, value |-> 0, error |-> 0,
         name |-> ord[i], options |-> undefined, wrote |-> FALSE]

\* A task that starts its provider's fetch at once, whatever it depends on.
ScheduleWithoutPrereqs(parsed, ord, i) ==
    [state |-> "scheduled", prereqs |-> <<>>, invoked |-> FALSE, args |-> <<>>,
     value |-> 0, error |-> 0, name |-> ord[i], options |-> undefined, wrote |-> FALSE]

\* Lines 52-63: the task of the node ord[i]. prereqs are the promises
\* responses.get(name) gives for its prerequisites when the loop reaches it:
\* the task of a node scheduled before it, or undefined (0).
Schedule(parsed, ord, i) ==
    LET depends_on == DagGet(parsed, ord[i])
    IN  [state |-> "scheduled",
         prereqs |-> [d \in 1..Len(depends_on) |->
                        IF \E j \in 1..(i - 1) : ord[j] = depends_on[d]
                        THEN depends_on[d] ELSE 0],
         invoked |-> FALSE, args |-> <<>>, value |-> 0, error |-> 0,
         name |-> ord[i], options |-> undefined, wrote |-> FALSE]

\* The lists of n declarations tried; names are interchangeable, so the k-th
\* declaration names one of the nodes 1..k.
DeclarationLists(n) ==
    { [k \in 1..n |-> [name |-> names[k], deps |-> deps[k]]] :
        names \in { f \in [1..n -> Names] : \A k \in 1..n : f[k] <= k },
        deps \in [1..n -> DepLists] }

\* The provider maps tried: a provider for every name, or for all but one.
ProviderMaps == {Names} \cup { Names \ {m} : m \in Names }

LinkedInit ==
    /\ \E n \in 0..MaxNode : dependencies \in DeclarationLists(n)
    /\ entities \in ProviderMaps
    /\ consolidate \in BOOLEAN
    /\ phase = "init"
    /\ thrown = NoError
    /\ order = <<>>
    /\ tasks = <<>>
    /\ returned = NothingReturned
    /\ dirty = FALSE
    /\ shared_options = EmptyObject
    /\ objects = [r \in {SharedRef} |-> shared_options]
    /\ cache = LRUCacheNew(0)
    /\ last = NoOp
    /\ AdapterIdle
    /\ ParseIdle

\* Lines 44-64, for the order ord: the index in ord of the first node with no
\* provider, where the loop throws; 0 when every node has one.
FirstMissing(ord) ==
    IF \E i \in 1..Len(ord) : ord[i] \notin entities
    THEN CHOOSE i \in 1..Len(ord) :
            /\ ord[i] \notin entities
            /\ \A j \in 1..(i - 1) : ord[j] \in entities
    ELSE 0

\* The call with the providers of all nodes looked up before any task is
\* scheduled: a node with no provider leaves no task behind.
CallChecksFirst(parsed, ord, missing) ==
    /\ order' = ord
    /\ tasks' = IF missing = 0
                THEN [n \in { ord[i] : i \in 1..Len(ord) } |->
                        Schedule(parsed, ord, CHOOSE i \in 1..Len(ord) : ord[i] = n)]
                ELSE <<>>
    /\ thrown' = IF missing = 0 THEN NoError ELSE [kind |-> "missing", name |-> ord[missing]]
    /\ returned' = IF missing = 0 THEN [NothingReturned EXCEPT !.state = "pending"]
                   ELSE NothingReturned
    /\ dirty' = (missing = 0)

\* The call of getLinkedData once the order ord is known: the tasks of the
\* nodes that precede the first one with no provider, at index `missing`, are
\* scheduled; the call throws for that node, or returns the promise of all.
CallSchedules(parsed, ord, missing) ==
    /\ order' = ord
    /\ tasks' = [n \in { ord[i] : i \in 1..(IF missing = 0 THEN Len(ord) ELSE missing - 1) } |->
                    Schedule(parsed, ord, CHOOSE i \in 1..Len(ord) : ord[i] = n)]
    /\ thrown' = IF missing = 0 THEN NoError ELSE [kind |-> "missing", name |-> ord[missing]]
    /\ returned' = IF missing = 0 THEN [NothingReturned EXCEPT !.state = "pending"]
                   ELSE NothingReturned
    /\ dirty' = (missing # 1)

\* The call of getLinkedData once the dag is built: the Sorter's adds throw,
\* or give the order.
CallSorts(parsed, items) ==
    IF TopoError(items) # NoError
    THEN /\ thrown' = TopoError(items)
         /\ order' = <<>>
         /\ tasks' = <<>>
         /\ returned' = NothingReturned
         /\ dirty' = FALSE
    ELSE CallSchedules(parsed, SorterSort(items, {}, <<>>),
                       FirstMissing(SorterSort(items, {}, <<>>)))

CallParsed(parsed) == CallSorts(parsed, SorterItems(parsed, DagKeys(parsed)))

\* getLinkedData(shared_options, entities, dependencies, consolidate), up to
\* its return or throw.
Call ==
    /\ phase = "init"
    /\ phase' = "called"
    /\ IF Len(dependencies) = 0
       THEN /\ returned' = [NothingReturned EXCEPT !.state = "empty"]
            /\ thrown' = NoError
            /\ order' = <<>>
            /\ tasks' = <<>>
            /\ dirty' = FALSE
       ELSE CallParsed(Parsed)
    /\ UNCHANGED <<shared_options, objects, dependencies, entities, consolidate, lruVars, adapterVars, parseVars>>

\* The state of Promise.all over the prerequisite promises of a task:
\* undefined (0) counts as fulfilled.
PrereqsRejected(ts, t) ==
    \E d \in 1..Len(t.prereqs) : t.prereqs[d] # 0 /\ ts[t.prereqs[d]].state = "rejected"

PrereqsFulfilled(ts, t) ==
    \A d \in 1..Len(t.prereqs) : t.prereqs[d] = 0 \/ ts[t.prereqs[d]].state = "fulfilled"

\* The reason Promise.all rejects with: that of the first rejected input.
PrereqsError(ts, t) ==
    ts[t.prereqs[CHOOSE d \in 1..Len(t.prereqs) :
        /\ t.prereqs[d] # 0 /\ ts[t.prereqs[d]].state = "rejected"
        /\ \A e \in 1..(d - 1) : t.prereqs[e] = 0 \/ ts[t.prereqs[e]].state # "rejected"]].error

\* The values Promise.all fulfils with: one per prerequisite, in order.
PriorResults(ts, t) ==
    [d \in 1..Len(t.prereqs) |-> IF t.prereqs[d] = 0 THEN 0 ELSE ts[t.prereqs[d]].value]

\* The reactions of a task that is cancelled by the first failure: once any
\* task is rejected, a task that has not started is left as it is.
ReactCancelled(ts, t) ==
    IF t.state # "scheduled" THEN t
    ELSE IF \E m \in DOMAIN ts : ts[m].state = "rejected"
         THEN t
         ELSE IF PrereqsFulfilled(ts, t)
              THEN [t EXCEPT !.state = "fetching", !.invoked = TRUE,
                             !.args = PriorResults(ts, t),
                             !.options = OptionsObject(t.name)]
              ELSE t

\* The reactions of a task that waits with Promise.allSettled: the callback
\* runs once every prerequisite has settled, rejected or not.
ReactAllSettled(ts, t) ==
    IF t.state # "scheduled" THEN t
    ELSE IF \A d \in 1..Len(t.prereqs) :
                t.prereqs[d] = 0 \/ ts[t.prereqs[d]].state \in {"fulfilled", "rejected"}
         THEN [t EXCEPT !.state = "fetching", !.invoked = TRUE, !.args = PriorResults(ts, t),
                        !.options = OptionsObject(t.name)]
         ELSE t

\* One round of reactions on a scheduled task: a rejected prerequisite
\* rejects it with the same reason; when all are fulfilled the `then`
\* callback calls provider.getData(options, ...prior_results). `invoked`
\* records that call.
React(ts, t) ==
    IF t.state # "scheduled" THEN t
    ELSE IF PrereqsRejected(ts, t)
         THEN [t EXCEPT !.state = "rejected", !.error = PrereqsError(ts, t)]
         ELSE IF PrereqsFulfilled(ts, t)
              THEN [t EXCEPT !.state = "fetching", !.invoked = TRUE,
                             !.args = PriorResults(ts, t),
                             !.options = OptionsObject(t.name)]
              ELSE t

\* The reactions run until none is left.
RECURSIVE RunReactions(_)
RunReactions(ts) ==
    LET next == [n \in DOMAIN ts |-> React(ts, ts[n])]
    IN  IF next = ts THEN ts ELSE RunReactions(next)

\* The returned promise when consolidation takes all_results[0].
ReturnedFirst(ret, ts, ord) ==
    IF ret.state # "pending" THEN ret
    ELSE IF \E i \in 1..Len(ord) : ts[ord[i]].state = "rejected"
         THEN [ret EXCEPT !.state = "rejected",
                          !.error = ts[ord[CHOOSE i \in 1..Len(ord) :
                                        /\ ts[ord[i]].state = "rejected"
                                        /\ \A j \in 1..(i - 1) : ts[ord[j]].state # "rejected"]].error]
         ELSE IF \A i \in 1..Len(ord) : ts[ord[i]].state = "fulfilled"
              THEN [ret EXCEPT !.state = "fulfilled",
                               !.value = IF consolidate
                                         THEN ts[ord[1]].value
                                         ELSE [i \in 1..Len(ord) |-> ts[ord[i]].value]]
              ELSE ret

\* Lines 65-73: Promise.all over the tasks, then the consolidation. ret is
\* the promise as it was, ts the tasks now. Consolidated, the value is the
\* last result itself, not a list.
Returned(ret, ts, ord) ==
    IF ret.state # "pending" THEN ret
    ELSE IF \E i \in 1..Len(ord) : ts[ord[i]].state = "rejected"
         THEN [ret EXCEPT !.state = "rejected",
                          !.error = ts[ord[CHOOSE i \in 1..Len(ord) :
                                        /\ ts[ord[i]].state = "rejected"
                                        /\ \A j \in 1..(i - 1) : ts[ord[j]].state # "rejected"]].error]
         ELSE IF \A i \in 1..Len(ord) : ts[ord[i]].state = "fulfilled"
              THEN [ret EXCEPT !.state = "fulfilled",
                               !.value = IF consolidate
                                         THEN ts[ord[Len(ord)]].value
                                         ELSE [i \in 1..Len(ord) |-> ts[ord[i]].value]]
              ELSE ret

\* The options objects after the `then` callbacks that took the tasks from
\* `before` to `after`: each callback that ran wrote the fields of its object.
RECURSIVE AssignOptions(_, _, _, _)
AssignOptions(objs, before, after, i) ==
    IF i > Len(order) THEN objs
    ELSE IF order[i] \in DOMAIN after /\ after[order[i]].invoked /\ ~before[order[i]].invoked
         THEN AssignOptions(
                [r \in DOMAIN objs \cup {after[order[i]].options} |->
                    IF r = after[order[i]].options
                    THEN OptionsFields(order[i], objs[SharedRef])
                    ELSE objs[r]],
                before, after, i + 1)
         ELSE AssignOptions(objs, before, after, i + 1)

DrainTo(ts) ==
    /\ tasks' = ts
    /\ returned' = Returned(returned, ts, order)
    /\ objects' = AssignOptions(objects, tasks, ts, 1)

\* The queued promise reactions run to completion, before any fetch settles.
Drain ==
    /\ dirty
    /\ dirty' = FALSE
    /\ DrainTo(RunReactions(tasks))
    /\ UNCHANGED <<shared_options, dependencies, entities, consolidate, phase, thrown, order, lruVars, adapterVars, parseVars>>

\* The promise a provider's getData returned is fulfilled; the node's name
\* stands for its records.
FetchFulfils ==
    /\ ~dirty
    /\ \E n \in DOMAIN tasks :
        /\ tasks[n].state = "fetching"
        /\ tasks' = [tasks EXCEPT ![n].state = "fulfilled", ![n].value = n]
    /\ dirty' = TRUE
    /\ UNCHANGED <<shared_options, objects, dependencies, entities, consolidate, phase, thrown, order, returned, lruVars, adapterVars, parseVars>>

\* The promise a provider's getData returned is rejected; the node's name
\* stands for the reason.
FetchRejects ==
    /\ ~dirty
    /\ \E n \in DOMAIN tasks :
        /\ tasks[n].state = "fetching"
        /\ tasks' = [tasks EXCEPT ![n].state = "rejected", ![n].error = n]
    /\ dirty' = TRUE
    /\ UNCHANGED <<shared_options, objects, dependencies, entities, consolidate, phase, thrown, order, returned, lruVars, adapterVars, parseVars>>

LinkedNext == Call \/ Drain \/ FetchFulfils \/ FetchRejects

LinkedSpec == LinkedInit /\ [][LinkedNext]_vars

\* getLinkedData on an event loop that keeps running: queued promise reactions
\* are run, and a fetch that was invoked settles, fulfilled or rejected. Each
\* of these steps changes `dirty`, which is the subscript of its fairness.
\* `consolidate` only selects the value the returned promise is fulfilled with
\* (lines 67-72); these runs are the ones that return the list.
LinkedFairInit == LinkedInit /\ consolidate = FALSE

LinkedFairSpec ==
    /\ LinkedFairInit
    /\ [][LinkedNext]_vars
    /\ WF_dirty(Drain)
    /\ WF_dirty(FetchFulfils \/ FetchRejects)

\* The diamond a, b(a), c(a), d(b,c), with a, b, c, d written 1, 2, 3, 4.
Diamond ==
    << [name |-> 1, deps |-> <<>>], [name |-> 2, deps |-> <<1>>],
       [name |-> 3, deps |-> <<1>>], [name |-> 4, deps |-> <<2, 3>> ] >>

\* getLinkedData called on the diamond, its declarations given in any order,
\* every node with a provider.
DiamondInit ==
    /\ \E f \in Permutations(DOMAIN Diamond) :
            dependencies = [i \in DOMAIN Diamond |-> Diamond[f[i]]]
    /\ entities = { Diamond[i].name : i \in DOMAIN Diamond }
    /\ consolidate \in BOOLEAN
    /\ phase = "init"
    /\ thrown = NoError
    /\ order = <<>>
    /\ tasks = <<>>
    /\ returned = NothingReturned
    /\ dirty = FALSE
    /\ shared_options = EmptyObject
    /\ objects = [r \in {SharedRef} |-> shared_options]
    /\ cache = LRUCacheNew(0)
    /\ last = NoOp
    /\ AdapterIdle
    /\ ParseIdle

DiamondSpec == DiamondInit /\ [][LinkedNext]_vars

\* A value the caller put in a field of shared_options, and the value a
\* provider writes to a field of the options it was given.
CallerValue == -1
ProviderValue == -2

\* The shared_options tried: each field absent or set by the caller.
SharedOptionsTried == [Fields -> {undefined, CallerValue}]

\* getLinkedData called with some shared_options, every name with a provider.
OptionsInit ==
    /\ \E n \in 1..MaxOptionNodes : dependencies \in DeclarationLists(n)
    /\ shared_options \in SharedOptionsTried
    /\ objects = [r \in {SharedRef} |-> shared_options]
    /\ entities = Names
    /\ consolidate = TRUE
    /\ phase = "init"
    /\ thrown = NoError
    /\ order = <<>>
    /\ tasks = <<>>
    /\ returned = NothingReturned
    /\ dirty = FALSE
    /\ cache = LRUCacheNew(0)
    /\ last = NoOp
    /\ AdapterIdle
    /\ ParseIdle

\* A provider's getData, before its promise settles, adds or overwrites a
\* top-level field of the options object it was passed (once per node).
ProviderWritesOption ==
    /\ ~dirty
    /\ \E n \in DOMAIN tasks, f \in Fields :
        /\ tasks[n].state = "fetching"
        /\ ~tasks[n].wrote
        /\ objects' = [objects EXCEPT ![tasks[n].options][f] = ProviderValue]
        /\ tasks' = [tasks EXCEPT ![n].wrote = TRUE]
    /\ UNCHANGED <<shared_options, dependencies, entities, consolidate, phase, thrown, order,
                   returned, dirty, lruVars, adapterVars, parseVars>>

OptionsNext == LinkedNext \/ ProviderWritesOption

OptionsSpec == OptionsInit /\ [][OptionsNext]_vars

\* ------------------------------------------------------ _parse_declaration

\* The characters of the strings tried: two word characters, the
\* punctuation of the grammar, a blank and one other character.
Chars == {"a", "b", "(", ")", ",", " ", "!"}
Texts(n) == [1..n -> Chars]

\* \w and \s, on these characters.
IsWord(ch) == ch \in {"a", "b"}
IsSpace(ch) == ch = " "

\* The least index from `from` on whose character is not a word character,
\* and the least whose character is ")": Len(s) + 1 when there is none.
WordEnd(s, from) ==
    IF \E j \in from..Len(s) : ~IsWord(s[j])
    THEN CHOOSE j \in from..Len(s) : ~IsWord(s[j]) /\ \A x \in from..(j - 1) : IsWord(s[x])
    ELSE Len(s) + 1

CloseAfter(s, from) ==
    IF \E k \in from..Len(s) : s[k] = ")"
    THEN CHOOSE k \in from..Len(s) : s[k] = ")" /\ \A x \in from..(k - 1) : s[x] # ")"
    ELSE Len(s) + 1

\* Line 10, the second alternative tried at index i:
\* (\w+)+ \( \s* [^)]+? \s* \)  -- word characters up to a "(", then at
\* least one character before the next ")".
MatchesAt(s, i) ==
    /\ WordEnd(s, i) > i
    /\ WordEnd(s, i) <= Len(s)
    /\ s[WordEnd(s, i)] = "("
    /\ CloseAfter(s, WordEnd(s, i) + 1) <= Len(s)
    /\ CloseAfter(s, WordEnd(s, i) + 1) >= WordEnd(s, i) + 2

\* The group `deps` of a match: the text between the parentheses without
\* the blanks \s* takes at both ends; of blanks alone, the last one.
DepsGroup(t) ==
    IF \A x \in 1..Len(t) : IsSpace(t[x])
    THEN <<t[Len(t)]>>
    ELSE SubSeq(t, CHOOSE a \in 1..Len(t) : ~IsSpace(t[a]) /\ \A x \in 1..(a - 1) : IsSpace(t[x]),
                   CHOOSE b \in 1..Len(t) : ~IsSpace(t[b]) /\ \A x \in (b + 1)..Len(t) : IsSpace(t[x]))

\* The blanks at the end of t, and at its start, removed.
DropBlanksAfter(t) ==
    IF \A x \in 1..Len(t) : IsSpace(t[x]) THEN <<>>
    ELSE SubSeq(t, 1, CHOOSE b \in 1..Len(t) : ~IsSpace(t[b]) /\ \A x \in (b + 1)..Len(t) : IsSpace(t[x]))

DropBlanksBefore(t) ==
    IF \A x \in 1..Len(t) : IsSpace(t[x]) THEN <<>>
    ELSE SubSeq(t, CHOOSE a \in 1..Len(t) : ~IsSpace(t[a]) /\ \A x \in 1..(a - 1) : IsSpace(t[x]), Len(t))

\* Line 20: deps.split(/\s*,\s*/): the text before the blanks that precede
\* the first comma, then the split of what follows the comma and its blanks.
RECURSIVE Split(_)
Split(t) ==
    IF \E c \in 1..Len(t) : t[c] = ","
    THEN LET c == CHOOSE c \in 1..Len(t) : t[c] = "," /\ \A x \in 1..(c - 1) : t[x] # ","
         IN  <<DropBlanksAfter(SubSeq(t, 1, c - 1))>>
                \o Split(DropBlanksBefore(SubSeq(t, c + 1, Len(t))))
    ELSE <<t>>

\* Line 10: the expression's exec(spec). The first alternative is anchored
\* at both ends; the second is tried at every index, leftmost first.
RegexExec(s) ==
    IF Len(s) > 0 /\ \A x \in 1..Len(s) : IsWord(s[x])
    THEN [matched |-> TRUE, name_alone |-> s, name_deps |-> <<>>, deps |-> <<>>]
    ELSE IF \E i \in 1..Len(s) : MatchesAt(s, i)
         THEN LET i == CHOOSE i \in 1..Len(s) :
                        MatchesAt(s, i) /\ \A x \in 1..(i - 1) : ~MatchesAt(s, x)
              IN  [matched |-> TRUE, name_alone |-> <<>>,
                   name_deps |-> SubSeq(s, i, WordEnd(s, i) - 1),
                   deps |-> DepsGroup(SubSeq(s, WordEnd(s, i) + 1,
                                             CloseAfter(s, WordEnd(s, i) + 1) - 1))]
         ELSE [matched |-> FALSE, name_alone |-> <<>>, name_deps |-> <<>>, deps |-> <<>>]

\* _parse_declaration(spec): [name, deps], or the Error whose message ends
\* with the spec.
ParseText(spec) ==
    LET parsed == RegexExec(spec)
    IN  IF ~parsed.matched
        THEN [state |-> "thrown", name |-> <<>>, deps |-> <<>>, message |-> spec]
        ELSE IF parsed.name_alone # <<>>
             THEN [state |-> "parsed", name |-> parsed.name_alone, deps |-> <<>>, message |-> <<>>]
             ELSE [state |-> "parsed", name |-> parsed.name_deps, deps |-> Split(parsed.deps),
                   message |-> <<>>]

ParseInit ==
    /\ \E n \in 0..MaxText : declaration \in Texts(n)
    /\ parse = NotParsed
    /\ cache = LRUCacheNew(0)
    /\ last = NoOp
    /\ AdapterIdle
    /\ LinkedIdle

\* _parse_declaration(declaration) is called.
DoParse ==
    /\ parse.state = "none"
    /\ parse' = ParseText(declaration)
    /\ UNCHANGED <<declaration, lruVars, adapterVars, linkedVars>>

ParseSpec == ParseInit /\ [][DoParse]_vars

\* ------------------------------------------------------- the cache's claims

Range(seq) == { seq[i] : i \in 1..Len(seq) }
Reverse(seq) == [i \in 1..Len(seq) |-> seq[Len(seq) + 1 - i]]
Without(seq, x) == SelectSeq(seq, LAMBDA e : e # x)
Min(a, b) == IF a <= b THEN a ELSE b

\* C5: after any sequence of add, get, has, find, _remove and clear on a cache
\* of capacity c >= 0, the number of keys of the lookup map equals the number
\* of nodes reached walking the chain from the head, and equals _cur_size;
\* head and tail are both null exactly when that number is 0; and it never
\* exceeds c.
SizeInvariant ==
    ~cache.thrown =>
        LET n == Len(cache.store)
        IN  /\ n = Len(WalkNodes(cache, cache.head, {}))
            /\ n = Len(ChainBack(cache))
            /\ n = cache.cur_size
            /\ (cache.head = null /\ cache.tail = null) <=> (n = 0)
            /\ n <= cache.max_size

\* A cache of capacity two or more that an add has just filled to capacity.
SizeWitness ==
    /\ last.op = "add"
    /\ cache.max_size >= 2
    /\ cache.cur_size = cache.max_size
    /\ Len(last.before) < cache.max_size

\* C6: add of a key that is not present, to a cache of capacity >= 1, puts the
\* key at the head and keeps the others in order, dropping only the tail entry
\* and only when the cache held capacity entries; the map lists the keys from
\* least to most recent. (Hence n distinct keys added to an empty cache leave
\* the last min(n, c) of them, in insertion order.)
AddEvictsTail ==
    (last.op = "add" /\ last.key \notin Range(last.before) /\ cache.max_size >= 1) =>
        LET all == <<last.key>> \o last.before
        IN  /\ Chain(cache) = SubSeq(all, 1, Min(Len(all), cache.max_size))
            /\ StoreKeys(cache.store) = Reverse(Chain(cache))
            /\ (Len(last.before) = cache.max_size =>
                    Range(last.before) \ Range(Chain(cache)) = {last.before[Len(last.before)]})

\* An add of a new key to a full cache of two entries: the tail went.
AddEvictsTailWitness ==
    /\ last.op = "add"
    /\ last.key \notin Range(last.before)
    /\ cache.max_size >= 2
    /\ Len(last.before) = cache.max_size

\* C7: get of a present key makes it the head and keeps the order of the other
\* entries and the set of keys; get of an absent key changes neither the keys
\* nor their order.
GetPromotes ==
    last.op = "get" =>
        /\ last.key \in Range(last.before) =>
                Chain(cache) = <<last.key>> \o Without(last.before, last.key)
        /\ last.key \notin Range(last.before) => Chain(cache) = last.before
        /\ Range(StoreKeys(cache.store)) = Range(last.before)
        /\ ChainBack(cache) = Reverse(Chain(cache))

\* A get of the key at the tail of a cache of two or more entries.
GetPromotesWitness ==
    /\ last.op = "get"
    /\ Len(last.before) >= 2
    /\ last.key = last.before[Len(last.before)]
    /\ cache.nodes[cache.head].key = last.key

\* ----------------------------------------------------- the adapter's claims

Calls == 1..Len(requests)

\* C1, as stated: with caching enabled, a getData call made while an earlier
\* fetch of the same cache key has not settled does not call _performRequest
\* and is served from that fetch's promise.
OneFetchWhileInFlight ==
    enable_cache =>
        \A r \in Calls : \A p \in requests[r].pendingAtCall :
            ~requests[r].fetched /\ requests[r].promise = p

\* C1, amended: with caching enabled, a getData call made while the cache
\* still holds, under its cache key, the unsettled promise of an earlier fetch
\* does not call _performRequest and is served from that promise.
ServedFromCachedFuture ==
    enable_cache =>
        \A r \in Calls : \A p \in requests[r].pendingAtCall :
            requests[r].cachedAtCall = p =>
                ~requests[r].fetched /\ requests[r].promise = p

\* A second call for a key whose first fetch is in flight and still cached.
ServedFromCachedFutureWitness ==
    /\ enable_cache
    /\ \E r \in Calls :
        /\ requests[r].cachedAtCall \in requests[r].pendingAtCall
        /\ requests[r].promise = requests[r].cachedAtCall
        /\ \E q \in 1..(r - 1) : requests[q].fetched /\ requests[q].promise = requests[r].promise

\* C2: a failed fetch leaves the cache, so that a later getData with the same
\* key fetches again: once the reactions have run no cached promise is a
\* rejected one, and no call is served a promise that had been rejected.
FailureNotMemoized ==
    /\ microtasks = <<>> =>
            \A i \in 1..Len(cache.store) :
                promises[cache.nodes[cache.store[i][2]].value].state # "rejected"
    /\ \A r \in Calls : requests[r].stateAtCall # "rejected"

\* C8: _annotateRecords works on a copy, so the value a fulfilled promise
\* holds in the cache stays as fetched ({a: 1}), and two getData calls with
\* the same cache key return equal results.
CachedValueNeverMutated ==
    /\ \A p \in 1..Len(promises) : promises[p].state = "fulfilled" => promises[p].a = 1
    /\ \A r, q \in Calls :
            (requests[r].stage = "done" /\ requests[q].stage = "done"
                /\ requests[r].key = requests[q].key)
            => requests[r].result = requests[q].result

\* --------------------------------------------------- getLinkedData's claims

\* The declared nodes, and the declared prerequisites of a node.
Declared == Range(DagKeys(Parsed))
DirectPrereqs(n) == Range(DagGet(Parsed, n)) \cap Declared

\* The nodes reached from the set S along declared prerequisites.
RECURSIVE PrereqClosure(_)
PrereqClosure(S) ==
    LET T == S \cup UNION { DirectPrereqs(n) : n \in S }
    IN  IF T = S THEN S ELSE PrereqClosure(T)

\* The direct and transitive prerequisites of a node.
AllPrereqs(n) == PrereqClosure(DirectPrereqs(n))

\* No node is a prerequisite of itself, directly or transitively.
Acyclic == \A n \in Declared : n \notin Range(DagGet(Parsed, n)) /\ n \notin AllPrereqs(n)

Position(seq, x) == CHOOSE i \in 1..Len(seq) : seq[i] = x

\* C3: the provider fetch of a node is never invoked before the task of every
\* prerequisite its declaration lists has settled.
FetchAfterPrereqs ==
    \A n \in DOMAIN tasks :
        tasks[n].invoked =>
            \A d \in DirectPrereqs(n) :
                d \in DOMAIN tasks /\ tasks[d].state \in {"fulfilled", "rejected"}

\* A node with two declared prerequisites whose fetch has been invoked.
FetchAfterPrereqsWitness ==
    \E n \in DOMAIN tasks :
        /\ tasks[n].invoked
        /\ Cardinality(DirectPrereqs(n)) = 2
        /\ \E d \in DirectPrereqs(n) : DirectPrereqs(d) # {}

\* C4, as stated: once the reactions have run, if the task of a node has
\* failed, the task of every node that depends on it has failed with the same
\* original failure, its fetch was not invoked, and the returned promise is
\* rejected.
FailureReachesDependents ==
    ~dirty =>
        \A p \in DOMAIN tasks : tasks[p].state = "rejected" =>
            /\ returned.state # "none" => returned.state = "rejected"
            /\ \A n \in DOMAIN tasks : p \in AllPrereqs(n) =>
                    /\ tasks[n].state = "rejected"
                    /\ ~tasks[n].invoked
                    /\ tasks[n].error = tasks[p].error

\* C4, amended: the dependent task fails with the original failure of a
\* failed node it depends on (not of each of them).
FailureReachesDependentsOnce ==
    ~dirty =>
        \A p \in DOMAIN tasks : tasks[p].state = "rejected" =>
            /\ returned.state # "none" => returned.state = "rejected"
            /\ \A n \in DOMAIN tasks : p \in AllPrereqs(n) =>
                    /\ tasks[n].state = "rejected"
                    /\ ~tasks[n].invoked
                    /\ \E q \in AllPrereqs(n) \cap DOMAIN tasks :
                            /\ tasks[q].state = "rejected"
                            /\ tasks[q].invoked
                            /\ tasks[q].error = q
                            /\ tasks[n].error = q

\* A failed fetch whose failure reached a node two steps away, and the
\* returned promise.
FailureReachesDependentsWitness ==
    /\ ~dirty
    /\ returned.state = "rejected"
    /\ \E p, m, n \in DOMAIN tasks :
        /\ tasks[p].invoked /\ tasks[p].state = "rejected"
        /\ p \in DirectPrereqs(m) /\ m \in DirectPrereqs(n) /\ p \notin DirectPrereqs(n)
        /\ tasks[n].state = "rejected" /\ tasks[n].error = p

\* C9: for acyclic declarations the order holds every declared node exactly
\* once, each after all its direct and transitive prerequisites.
OrderRespectsPrereqs ==
    (phase = "called" /\ Len(dependencies) > 0 /\ Acyclic) =>
        /\ thrown.kind # "circular"
        /\ Range(order) = Declared
        /\ Len(order) = Cardinality(Declared)
        /\ \A n \in Declared : \A d \in AllPrereqs(n) :
                Position(order, d) < Position(order, n)

\* Three nodes ordered against the order of their declarations.
OrderRespectsPrereqsWitness ==
    /\ phase = "called"
    /\ Acyclic
    /\ Len(order) = 3
    /\ \E n \in Declared : Cardinality(AllPrereqs(n)) = 2 /\ Cardinality(DirectPrereqs(n)) = 1
    /\ order # DagKeys(Parsed)

\* C10: if the declarations hold a cycle, the call throws the
\* circular-dependency error and no task is ever scheduled, so that no
\* provider's fetch is invoked.
CycleFailsFast ==
    (phase = "called" /\ ~Acyclic) =>
        /\ thrown.kind = "circular"
        /\ returned.state = "none"
        /\ tasks = <<>>
        /\ ~dirty

\* The call threw for a(b), b(a).
CycleFailsFastWitness ==
    /\ phase = "called"
    /\ thrown.kind = "circular"
    /\ \E a, b \in Declared : a # b /\ a \in DirectPrereqs(b) /\ b \in DirectPrereqs(a)

\* The names the declarations refer to, as a node or as a prerequisite.
Referenced ==
    UNION { {dependencies[i].name} \cup Range(dependencies[i].deps) : i \in 1..Len(dependencies) }

\* C11: if a name the declarations refer to has no provider, the call fails
\* with an error that holds that name.
MissingNameFails ==
    phase = "called" =>
        \A n \in Referenced \ entities : thrown.kind # "none" /\ thrown.name = n

\* C12: when every task has succeeded, the returned promise is fulfilled with
\* the value of the last node of the order alone (consolidate), or with the
\* values of all declared nodes in the order.
ConsolidateResult ==
    (phase = "called" /\ thrown = NoError /\ order # <<>> /\ ~dirty
        /\ \A n \in DOMAIN tasks : tasks[n].state = "fulfilled") =>
        /\ returned.state = "fulfilled"
        /\ IF consolidate
           THEN returned.value = tasks[order[Len(order)]].value
           ELSE /\ Len(returned.value) = Cardinality(Declared)
                /\ \A i \in 1..Len(order) : returned.value[i] = tasks[order[i]].value

\* Three nodes have succeeded, the last of the order is not the last
\* declared, and the call consolidates.
ConsolidateResultWitness ==
    /\ consolidate
    /\ returned.state = "fulfilled"
    /\ Len(order) = 3
    /\ order[3] # dependencies[Len(dependencies)].name

InFlight(n) == n \in DOMAIN tasks /\ tasks[n].state = "fetching"
Settled(n) == n \in DOMAIN tasks /\ tasks[n].state \in {"fulfilled", "rejected"}

\* C13: a node waits for its prerequisites and for nothing else: once the
\* reactions have run, a task not yet started has a prerequisite that has
\* not settled. In the diamond, b and c are started only after a has
\* settled, and d only after both b and c have.
WaitsOnlyForPrereqs ==
    /\ ~dirty =>
            \A n \in DOMAIN tasks :
                tasks[n].state = "scheduled" => \E d \in DirectPrereqs(n) : ~Settled(d)
    /\ \A n \in {2, 3} : (n \in DOMAIN tasks /\ tasks[n].invoked) => Settled(1)
    /\ (4 \in DOMAIN tasks /\ tasks[4].invoked) => (Settled(2) /\ Settled(3))

\* b and c of the diamond are both in flight.
WaitsOnlyForPrereqsWitness == InFlight(2) /\ InFlight(3)

\* C14: the fetch of a node declared with prerequisites p1..pk is invoked
\* with k prior results, the i-th the value the task of p_i settled with.
PriorResultsPositional ==
    \A n \in DOMAIN tasks :
        tasks[n].invoked =>
            LET depends_on == DagGet(Parsed, n)
            IN  /\ Len(tasks[n].args) = Len(depends_on)
                /\ \A i \in 1..Len(depends_on) :
                        /\ depends_on[i] \in DOMAIN tasks
                        /\ tasks[depends_on[i]].state = "fulfilled"
                        /\ tasks[n].args[i] = tasks[depends_on[i]].value

\* C15: the options object passed to a node's fetch names that node in its
\* _provider_name field, whatever shared_options holds.
OptionsNameTheNode ==
    \A n \in DOMAIN tasks :
        (tasks[n].invoked /\ ~tasks[n].wrote) =>
            objects[tasks[n].options]["_provider_name"] = n

\* C16: whatever fields providers write in the options they were passed,
\* shared_options keeps the fields it was passed with, and the options of
\* every node whose provider has written nothing are as it received them.
OptionsAreOwn ==
    phase = "called" =>
        /\ objects[SharedRef] = shared_options
        /\ \A n \in DOMAIN tasks :
                (tasks[n].invoked /\ ~tasks[n].wrote) =>
                    objects[tasks[n].options] = OptionsFields(n, shared_options)

\* One provider has written a field of its options while another node's
\* fetch, which has written nothing, holds its own.
OptionsAreOwnWitness ==
    \E n, m \in DOMAIN tasks :
        /\ n # m
        /\ tasks[n].wrote
        /\ objects[tasks[n].options] # OptionsFields(n, shared_options)
        /\ tasks[m].invoked /\ ~tasks[m].wrote

\* C17: a cache of capacity 0 never holds an entry: has is false for every
\* key, the count is 0, head and tail are null.
ZeroCapacityKeepsNothing ==
    (~cache.thrown /\ cache.max_size = 0) =>
        /\ \A k \in Keys : ~Has(cache, k)
        /\ last.op = "has" => last.ret = 0
        /\ cache.cur_size = 0
        /\ cache.head = null /\ cache.tail = null

\* add was just called on a cache of capacity 0.
ZeroCapacityKeepsNothingWitness ==
    ~cache.thrown /\ cache.max_size = 0 /\ last.op = "add"

\* C18: constructing a cache with a negative capacity throws the Error
\* 'Cache "max_size" must be >= 0', and no operation is ever carried out on
\* such a cache.
NegativeCapacityRejected ==
    cache.max_size < 0 =>
        /\ cache.thrown
        /\ last = NoOp
        /\ cache.store = <<>> /\ cache.cur_size = 0

\* The constructor was given a capacity below -1.
NegativeCapacityRejectedWitness ==
    cache.thrown /\ cache.max_size < -1

\* The value and the metadata the cache c holds for a key it has.
Entry(c, key) ==
    [value |-> c.nodes[StoreGet(c.store, key)].value,
     metadata |-> c.nodes[StoreGet(c.store, key)].metadata]

\* C19: get of a cached key leaves the value and the metadata stored with
\* the key as they were.
GetKeepsMetadata ==
    [][(last'.op = "get" /\ Has(cache, last'.key)) =>
            /\ Has(cache', last'.key)
            /\ Entry(cache', last'.key) = Entry(cache, last'.key)]_vars

\* C20: what get returns for a key the cache holds is never what it returns
\* for a key the cache does not hold (null), whatever value is stored.
GetTellsMissFromHit ==
    (last.op = "get" /\ last.key \in Range(last.before)) => last.ret # null

\* The grammar NAME | NAME(NAME (, NAME)*), NAME being \w+, with blanks
\* allowed around the names of the list.
IsName(t) == Len(t) > 0 /\ \A x \in 1..Len(t) : IsWord(t[x])

IsNameList(t) ==
    LET cuts == {0, Len(t) + 1} \cup { c \in 1..Len(t) : t[c] = "," }
    IN  \A p, q \in cuts :
            (p < q /\ \A c \in cuts : ~(p < c /\ c < q)) =>
                IsName(DropBlanksBefore(DropBlanksAfter(SubSeq(t, p + 1, q - 1))))

WellFormed(s) ==
    \/ IsName(s)
    \/ \E j \in 2..(Len(s) - 2) :
        /\ IsName(SubSeq(s, 1, j - 1))
        /\ s[j] = "(" /\ s[Len(s)] = ")"
        /\ IsNameList(SubSeq(s, j + 1, Len(s) - 1))

\* C21: a declaration is accepted only if the whole string has the form of
\* the grammar; any other string throws the parse error that names it.
ParseAcceptsOnlyGrammar ==
    parse.state # "none" =>
        /\ parse.state = "parsed" <=> WellFormed(declaration)
        /\ parse.state = "thrown" => parse.message = declaration

\* C22: nothing is cancelled. On an event loop that keeps running, where every
\* fetch that was invoked settles, every task that was scheduled settles, and
\* the fetch of a scheduled node is invoked unless one of its direct or
\* transitive prerequisites is rejected: whatever other task failed, and
\* whether or not the returned promise is rejected by then.
PrereqFailed(n) ==
    \E p \in AllPrereqs(n) : p \in DOMAIN tasks /\ tasks[p].state = "rejected"

TaskSettled(n) ==
    IF n \in DOMAIN tasks THEN tasks[n].state \in {"fulfilled", "rejected"} ELSE FALSE

InvokedOrPrereqFailed(n) ==
    IF n \in DOMAIN tasks THEN tasks[n].invoked \/ PrereqFailed(n) ELSE FALSE

NoCancellation ==
    \A n \in Names :
        /\ (n \in DOMAIN tasks) ~> TaskSettled(n)
        /\ (n \in DOMAIN tasks) ~> InvokedOrPrereqFailed(n)

\* The returned promise is rejected for the failure of a node m, while a node n
\* that does not depend on m still waits for a prerequisite in flight.
NoCancellationWitness ==
    /\ returned.state = "rejected"
    /\ \E n \in DOMAIN tasks :
        /\ tasks[n].state = "scheduled"
        /\ ~PrereqFailed(n)
        /\ \E p \in DirectPrereqs(n) : InFlight(p)

\* C23: with caching enabled and a capacity of at least 1, a getData call that
\* misses stores the promise of the fetch it starts under the cache key before
\* it returns: when control is back with the caller the fetch is in flight and
\* the cache holds its promise under the key.
FutureStoredWithFetch ==
    [][(/\ enable_cache /\ cache.max_size >= 1
        /\ Len(requests') = Len(requests) + 1
        /\ requests'[Len(requests')].fetched) =>
            /\ promises'[requests'[Len(requests')].promise].state = "pending"
            /\ Len(promises') = Len(promises) + 1
            /\ Has(cache', requests'[Len(requests')].key)
            /\ Entry(cache', requests'[Len(requests')].key).value
                    = requests'[Len(requests')].promise]_vars

\* The last call missed, while the cache already held another key, and its
\* fetch is in flight and cached under its key.
FutureStoredWithFetchWitness ==
    /\ enable_cache /\ cache.max_size >= 1
    /\ Len(requests) >= 2
    /\ LET r == requests[Len(requests)]
       IN  /\ r.fetched
           /\ promises[r.promise].state = "pending"
           /\ Has(cache, r.key)
           /\ Entry(cache, r.key).value = r.promise

\* C24: add of a key the cache holds stores the new value (and metadata) for
\* it, makes it the head, keeps the number of entries and the order of the
\* other entries, and evicts nothing, even in a full cache; and no key ever
\* has two nodes in the chain.
AddReplaces ==
    /\ (last.op = "add" /\ last.key \in Range(last.before)) =>
            /\ Chain(cache) = <<last.key>> \o Without(last.before, last.key)
            /\ ChainBack(cache) = Reverse(Chain(cache))
            /\ cache.cur_size = Len(last.before)
            /\ Range(StoreKeys(cache.store)) = Range(last.before)
            /\ Entry(cache, last.key) = [value |-> last.value, metadata |-> last.metadata]
    /\ \A i, j \in 1..Len(Chain(cache)) :
            Chain(cache)[i] = Chain(cache)[j] => i = j

\* An add of the key at the tail of a full cache of two or more entries, with
\* a value other than the one it had.
AddReplacesWitness ==
    /\ last.op = "add"
    /\ Len(last.before) >= 2
    /\ Len(last.before) = cache.max_size
    /\ last.key = last.before[Len(last.before)]
    /\ last.value = 1
    /\ Len(Chain(cache)) = cache.max_size

\* C25: find calls the callback on the entries from the most to the least
\* recently used, each at most once, up to and including the first one it is
\* true for, which find returns; it returns nothing when it is true for none.
\* The same holds when the callback removes the entry it is given: the scan
\* goes on with the entry that followed it, and only such entries are gone.
FirstMatch(keys, match) ==
    IF \E i \in 1..Len(keys) : keys[i] \in match
    THEN CHOOSE i \in 1..Len(keys) :
            keys[i] \in match /\ \A j \in 1..(i - 1) : keys[j] \notin match
    ELSE 0

FindFirstMatch ==
    last.op = "find" =>
        LET first == FirstMatch(last.before, last.match)
        IN  /\ last.visited = SubSeq(last.before, 1,
                                     IF first = 0 THEN Len(last.before) ELSE first)
            /\ last.ret = IF first = 0 THEN 0 ELSE last.before[first]
            /\ Chain(cache) = SelectSeq(last.before,
                    LAMBDA k : ~(k \in last.drop /\ k \in Range(last.visited)))

\* A find whose callback removed the first entry it was given and was true for
\* the one after it.
FindFirstMatchWitness ==
    /\ last.op = "find"
    /\ Len(last.visited) >= 2
    /\ last.visited[1] \in last.drop
    /\ last.ret = last.visited[Len(last.visited)]
    /\ last.ret \notin last.drop
    /\ last.visited[1] \notin Range(Chain(cache))

\* C26: when the first node of the order with no provider is m, getLinkedData
\* throws the missing-provider error for m with the tasks of exactly the nodes
\* ordered before m scheduled, and none for m or a node after it, ever; no
\* fetch has been invoked when it throws; and afterwards the fetch of every
\* node ordered before m is invoked, unless a prerequisite of it is rejected.
ScheduledBeforeMissing ==
    IF thrown.kind = "missing"
    THEN /\ thrown.name \notin entities
         /\ \A i \in 1..(Position(order, thrown.name) - 1) : order[i] \in entities
         /\ DOMAIN tasks = { order[i] : i \in 1..(Position(order, thrown.name) - 1) }
         /\ returned = NothingReturned
    ELSE TRUE

EarlierInvoked ==
    IF thrown.kind = "missing"
    THEN \A i \in 1..(Position(order, thrown.name) - 1) : InvokedOrPrereqFailed(order[i])
    ELSE FALSE

MissingProviderKeepsEarlier ==
    /\ []ScheduledBeforeMissing
    /\ [][thrown'.kind = "missing" /\ thrown.kind # "missing" =>
                \A n \in DOMAIN tasks' : ~tasks'[n].invoked]_vars
    /\ (thrown.kind = "missing") ~> EarlierInvoked

\* The second of three nodes has no provider; the fetch of the first, which
\* the third depends on, has been invoked and has succeeded.
MissingProviderKeepsEarlierWitness ==
    /\ thrown.kind = "missing"
    /\ Len(order) = 3
    /\ Position(order, thrown.name) = 2
    /\ tasks[order[1]].invoked
    /\ tasks[order[1]].state = "fulfilled"
    /\ order[1] \in DirectPrereqs(order[3])

\* C27: with caching disabled every getData call calls _performRequest, once,
\* whatever the earlier calls were: the r-th call gets the r-th promise made.
\* Each call still adds its promise to the cache under its key: with a
\* capacity of at least 1 the cache is not empty after a call and holds the
\* promise of the latest call under that call's key.
DisabledCacheStillStores ==
    ~enable_cache =>
        /\ Len(promises) = Len(requests)
        /\ \A r \in Calls : requests[r].fetched /\ requests[r].promise = r
        /\ (requests # <<>> /\ cache.max_size >= 1) =>
                /\ cache.cur_size >= 1
                /\ Has(cache, requests[Len(requests)].key)
                /\ Entry(cache, requests[Len(requests)].key).value = Len(requests)

\* Caching is disabled; a second call for a key whose first fetch was in
\* flight and cached fetched again, and its promise took the key's entry.
DisabledCacheStillStoresWitness ==
    /\ ~enable_cache
    /\ cache.max_size >= 1
    /\ \E r \in Calls :
        /\ r = Len(requests)
        /\ requests[r].fetched
        /\ requests[r].cachedAtCall \in requests[r].pendingAtCall
        /\ Entry(cache, requests[r].key).value = requests[r].promise
        /\ promises[requests[r].promise].state = "pending"
====
